---- MODULE Spec2Model ----
(***************************************************************************)
(* Model of update_csv.py: allergen classification from the Turkish item   *)
(* name, clean-up of the EN/DE/RU translations, and the read / transform / *)
(* write cycle of process_csv.                                             *)
(*                                                                         *)
(* A Python str is modelled as the sequence of its Unicode code points.    *)
(* The character tables (lower, \w, \s) are those of CPython 3 for the     *)
(* code points 0..383 (Basic Latin, Latin-1, Latin Extended-A), 775 and     *)
(* 1024..1119 (basic Cyrillic); texts of the model stay inside that range. *)
(* A file is modelled as the sequence of its bytes, a table as the         *)
(* sequence of its rows, a row as the sequence of its fields.              *)
(***************************************************************************)
EXTENDS Integers, Sequences, FiniteSets, TLC

(***************************************************************************)
(* Keyword tables, update_csv.py lines 13-39.                              *)
(***************************************************************************)
GLUTEN_KEYWORDS ==
  << <<101, 107, 109, 101, 107>>,   \* 'ekmek'
     <<112, 105, 100, 101>>,   \* 'pide'
     <<98, 246, 114, 101, 107>>,   \* 'b\xf6rek'
     <<98, 246, 114, 101, 287>>,   \* 'b\xf6re\u011f'
     <<109, 97, 107, 97, 114, 110, 97>>,   \* 'makarna'
     <<115, 112, 97, 103, 101, 116, 116, 105>>,   \* 'spagetti'
     <<98, 117, 108, 103, 117, 114>>,   \* 'bulgur'
     <<117, 110>>,   \* 'un'
     <<351, 101, 104, 114, 105, 121, 101>>,   \* '\u015fehriye'
     <<109, 97, 110, 116, 305>>,   \* 'mant\u0131'
     <<115, 105, 109, 105, 116>>,   \* 'simit'
     <<103, 97, 108, 101, 116, 97>>,   \* 'galeta'
     <<112, 97, 110, 101>>,   \* 'pane'
     <<98, 105, 115, 107, 252, 118, 105>>,   \* 'bisk\xfcvi'
     <<107, 114, 97, 107, 101, 114>>,   \* 'kraker'
     <<116, 97, 114, 104, 97, 110, 97>>,   \* 'tarhana'
     <<121, 117, 108, 97, 102>>,   \* 'yulaf'
     <<231, 97, 118, 100, 97, 114>>,   \* '\xe7avdar'
     <<101, 114, 105, 351, 116, 101>>,   \* 'eri\u015fte'
     <<108, 97, 122, 97, 110, 121, 97>>,   \* 'lazanya'
     <<99, 97, 110, 110, 101, 108, 111, 110, 105>>,   \* 'canneloni'
     <<114, 97, 118, 105, 111, 108, 105>>,   \* 'ravioli'
     <<102, 117, 115, 105, 108, 108, 105>>,   \* 'fusilli'
     <<102, 97, 114, 102, 97, 108, 108, 101>>,   \* 'farfalle'
     <<116, 97, 103, 108, 105, 97, 116, 101, 108, 108, 101>>,   \* 'tagliatelle'
     <<351, 101, 104, 114, 105, 121>>,   \* '\u015fehriy'
     <<99, 97, 110, 97, 108, 111, 110, 105>> >>   \* 'canaloni'

MILK_KEYWORDS ==
  << <<115, 252, 116>>,   \* 's\xfct'
     <<121, 111, 287, 117, 114, 116>>,   \* 'yo\u011furt'
     <<112, 101, 121, 110, 105, 114>>,   \* 'peynir'
     <<112, 101, 121, 110, 305, 114>>,   \* 'peyn\u0131r'
     <<107, 97, 351, 97, 114>>,   \* 'ka\u015far'
     <<107, 97, 115, 97, 114>>,   \* 'kasar'
     <<107, 114, 101, 109, 97>>,   \* 'krema'
     <<116, 101, 114, 101, 121, 97, 287>>,   \* 'tereya\u011f'
     <<109, 117, 104, 97, 108, 108, 101, 98, 105>>,   \* 'muhallebi'
     <<99, 97, 99, 305, 107>>,   \* 'cac\u0131k'
     <<97, 121, 114, 97, 110>>,   \* 'ayran'
     <<98, 101, 351, 97, 109, 101, 108>>,   \* 'be\u015famel'
     <<108, 97, 98, 110, 101>>,   \* 'labne'
     <<108, 111, 114>>,   \* 'lor'
     <<112, 97, 114, 109, 101, 115, 97, 110>>,   \* 'parmesan'
     <<109, 111, 122, 97, 114, 101, 108, 108, 97>>,   \* 'mozarella'
     <<109, 97, 115, 99, 97, 114, 112, 111, 110, 101>>,   \* 'mascarpone'
     <<107, 114, 101, 109, 97, 108, 105>>,   \* 'kremali'
     <<115, 252, 116, 108, 252>>,   \* 's\xfctl\xfc'
     <<103, 114, 97, 116, 101, 110>>,   \* 'graten'
     <<98, 101, 287, 101, 110, 100, 105>> >>   \* 'be\u011fendi'

EGG_KEYWORDS ==
  << <<121, 117, 109, 117, 114, 116, 97>>,   \* 'yumurta'
     <<111, 109, 108, 101, 116>>,   \* 'omlet'
     <<109, 101, 110, 101, 109, 101, 110>>,   \* 'menemen'
     <<109, 97, 121, 111, 110, 101, 122>> >>   \* 'mayonez'

FISH_KEYWORDS ==
  << <<98, 97, 108, 305, 107>>,   \* 'bal\u0131k'
     <<98, 97, 108, 105, 107>>,   \* 'balik'
     <<115, 111, 109, 111, 110>>,   \* 'somon'
     <<116, 111, 110>>,   \* 'ton'
     <<108, 101, 118, 114, 101, 107>>,   \* 'levrek'
     <<231, 105, 112, 117, 114, 97>>,   \* '\xe7ipura'
     <<99, 105, 112, 117, 114, 97>>,   \* 'cipura'
     <<107, 97, 108, 97, 109, 97, 114>>,   \* 'kalamar'
     <<107, 97, 114, 105, 100, 101, 115>>,   \* 'karides'
     <<107, 97, 114, 305, 100, 101, 115>>,   \* 'kar\u0131des'
     <<97, 104, 116, 97, 112, 111, 116>>,   \* 'ahtapot'
     <<104, 97, 109, 115, 105>>,   \* 'hamsi'
     <<112, 97, 108, 97, 109, 117, 116>>,   \* 'palamut'
     <<117, 115, 107, 117, 109, 114, 117>>,   \* 'uskumru'
     <<109, 101, 122, 103, 105, 116>>,   \* 'mezgit'
     <<115, 97, 114, 100, 97, 108, 121, 97>>,   \* 'sardalya'
     <<231, 105, 110, 101, 107, 111, 112>>,   \* '\xe7inekop'
     <<99, 105, 110, 101, 107, 111, 112>>,   \* 'cinekop'
     <<98, 97, 114, 98, 117, 110>>,   \* 'barbun'
     <<98, 97, 114, 98>>,   \* 'barb'
     <<107, 305, 108, 305, 231>>,   \* 'k\u0131l\u0131\xe7'
     <<107, 105, 108, 105, 231>>,   \* 'kili\xe7'
     <<107, 111, 108, 121, 111, 115>>,   \* 'kolyos'
     <<111, 114, 107, 105, 110, 111, 115>>,   \* 'orkinos'
     <<108, 252, 102, 101, 114>>,   \* 'l\xfcfer'
     <<108, 117, 102, 101, 114>>,   \* 'lufer'
     <<97, 108, 97, 98, 97, 108, 305, 107>>,   \* 'alabal\u0131k'
     <<97, 108, 97, 98, 97, 108, 105, 107>>,   \* 'alabalik'
     <<100, 105, 108, 32, 98, 97, 108, 305, 287, 305>>,   \* 'dil bal\u0131\u011f\u0131'
     <<115, 252, 98, 121, 101>>,   \* 's\xfcbye'
     <<115, 117, 98, 121, 101>>,   \* 'subye'
     <<121, 101, 110, 103, 101, 231>>,   \* 'yenge\xe7'
     <<121, 101, 110, 103, 101, 99>>,   \* 'yengec'
     <<112, 97, 101, 108, 108, 97>>,   \* 'paella'
     <<100, 101, 110, 105, 122, 32, 109, 97, 104, 115, 252, 108, 108, 101, 114, 105>>,   \* 'deniz mahs\xfclleri'
     <<100, 101, 110, 105, 122, 109, 97, 104, 115, 252, 108, 108, 101, 114, 105>>,   \* 'denizmahs\xfclleri'
     <<100, 101, 110, 105, 122, 32, 252, 114, 252, 110, 108, 101, 114, 105>>,   \* 'deniz \xfcr\xfcnleri'
     <<231, 117, 112, 114, 97>>,   \* '\xe7upra'
     <<231, 105, 112, 117, 114, 97>>,   \* '\xe7ipura'
     <<99, 105, 112, 117, 114, 97>>,   \* 'cipura'
     <<105, 115, 116, 97, 118, 114, 105, 116>>,   \* 'istavrit'
     <<105, 115, 116, 114, 97, 118, 105, 116>> >>   \* 'istravit'

(***************************************************************************)
(* Character classes of Python's str and re (Unicode mode).                *)
(***************************************************************************)

\* str.lower() of one code point; U+0130 lowers to two code points.
LowerChar(c) ==
  IF (c >= 65 /\ c <= 90) \/ (c >= 192 /\ c <= 214) \/ (c >= 216 /\ c <= 222)
       \/ (c >= 1040 /\ c <= 1071)
    THEN <<c + 32>>
  ELSE IF c = 304 THEN <<105, 775>>
  ELSE IF c = 376 THEN <<255>>
  ELSE IF c >= 1024 /\ c <= 1039 THEN <<c + 80>>
  ELSE IF ((c >= 256 /\ c <= 303) \/ (c >= 306 /\ c <= 311) \/ (c >= 330 /\ c <= 375))
            /\ c % 2 = 0
    THEN <<c + 1>>
  ELSE IF ((c >= 313 /\ c <= 327) \/ (c >= 377 /\ c <= 381)) /\ c % 2 = 1
    THEN <<c + 1>>
  ELSE <<c>>

\* \w of re: str.isalnum() or underscore.
IsWordChar(c) ==
  \/ c >= 48 /\ c <= 57
  \/ c >= 65 /\ c <= 90
  \/ c = 95
  \/ c >= 97 /\ c <= 122
  \/ c \in {170, 178, 179, 181, 185, 186, 188, 189, 190}
  \/ c >= 192 /\ c <= 214
  \/ c >= 216 /\ c <= 246
  \/ c >= 248 /\ c <= 383
  \/ c >= 1024 /\ c <= 1119

\* \s of re, and the characters str.strip() removes.
IsSpaceChar(c) ==
  \/ c >= 9 /\ c <= 13
  \/ c >= 28 /\ c <= 32
  \/ c \in {133, 160}

\* Case folding of re.IGNORECASE: two characters match when they fold alike.
\* I, i, U+0130 and U+0131 fold together, and so do S, s and U+017F.
FoldChar(c) ==
  IF c \in {73, 105, 304, 305} THEN 105
  ELSE IF c \in {83, 115, 383} THEN 115
  ELSE LowerChar(c)[1]

(***************************************************************************)
(* String primitives.                                                      *)
(***************************************************************************)

\* s[i..] starts with p (compared exactly, or under re.IGNORECASE).
MatchAt(p, s, i, ic) ==
  /\ i + Len(p) - 1 <= Len(s)
  /\ \A j \in 1..Len(p) :
        IF ic THEN FoldChar(s[i + j - 1]) = FoldChar(p[j]) ELSE s[i + j - 1] = p[j]

\* \b at the gap before s[i] (i = Len(s) + 1 is the end of the string).
WordBoundary(s, i) ==
  (i > 1 /\ IsWordChar(s[i - 1])) # (i <= Len(s) /\ IsWordChar(s[i]))

\* The pattern \b p \b matches at position i.
WordMatchAt(p, s, i, ic) ==
  /\ MatchAt(p, s, i, ic)
  /\ WordBoundary(s, i)
  /\ WordBoundary(s, i + Len(p))

\* `p in s`
Contains(s, p) == \E i \in 1..(Len(s) + 1) : MatchAt(p, s, i, FALSE)

\* str.replace(old, new) and re.sub of a literal pattern: leftmost matches,
\* left to right, never overlapping, the replacement is not rescanned.
RECURSIVE str_replace_from(_, _, _, _)
str_replace_from(s, old, new, i) ==
  IF i > Len(s) THEN <<>>
  ELSE IF MatchAt(old, s, i, FALSE)
    THEN new \o str_replace_from(s, old, new, i + Len(old))
  ELSE <<s[i]>> \o str_replace_from(s, old, new, i + 1)

str_replace(s, old, new) == str_replace_from(s, old, new, 1)

\* Index of the first alternative of pats that matches as \b(..)\b at i, or 0.
FirstAlt(pats, s, i, ic) ==
  IF \E k \in 1..Len(pats) : WordMatchAt(pats[k], s, i, ic)
    THEN CHOOSE k \in 1..Len(pats) :
           /\ WordMatchAt(pats[k], s, i, ic)
           /\ \A m \in 1..(k - 1) : ~WordMatchAt(pats[m], s, i, ic)
  ELSE 0

\* re.sub(r'\b(p1|p2|..)\b', new, s, flags)
RECURSIVE re_sub_words_from(_, _, _, _, _)
re_sub_words_from(pats, new, s, ic, i) ==
  IF i > Len(s) THEN <<>>
  ELSE LET k == FirstAlt(pats, s, i, ic) IN
       IF k # 0
         THEN new \o re_sub_words_from(pats, new, s, ic, i + Len(pats[k]))
       ELSE <<s[i]>> \o re_sub_words_from(pats, new, s, ic, i + 1)

re_sub_words(pats, new, s, ic) == re_sub_words_from(pats, new, s, ic, 1)

\* re.sub(r'\s+', ' ', s)
RECURSIVE collapse_spaces_from(_, _)
collapse_spaces_from(s, i) ==
  IF i > Len(s) THEN <<>>
  ELSE IF IsSpaceChar(s[i])
    THEN IF i > 1 /\ IsSpaceChar(s[i - 1])
           THEN collapse_spaces_from(s, i + 1)
         ELSE <<32>> \o collapse_spaces_from(s, i + 1)
  ELSE <<s[i]>> \o collapse_spaces_from(s, i + 1)

collapse_spaces(s) == collapse_spaces_from(s, 1)

\* str.strip()
str_strip(s) ==
  LET keep == {i \in 1..Len(s) : ~IsSpaceChar(s[i])} IN
  IF keep = {} THEN <<>>
  ELSE LET lo == CHOOSE i \in keep : \A j \in keep : i <= j
           hi == CHOOSE i \in keep : \A j \in keep : i >= j
       IN SubSeq(s, lo, hi)

(***************************************************************************)
(* Allergen classifier, update_csv.py lines 41-67.                         *)
(***************************************************************************)

\* text.replace(U+0130, 'i').replace('I', U+0131), one character at a time.
TurkishChar(c) == IF c = 304 THEN 105 ELSE IF c = 73 THEN 305 ELSE c

RECURSIVE lower_from(_, _)
lower_from(s, i) ==
  IF i > Len(s) THEN <<>> ELSE LowerChar(s[i]) \o lower_from(s, i + 1)

\* str.lower()
str_lower(s) == lower_from(s, 1)

\* normalize_turkish lowering before it replaces the two Turkish letters.
normalize_turkish_lower_first(text) ==
  IF text = <<>> THEN <<>>
  ELSE LET low == str_lower(text) IN [j \in 1..Len(low) |-> TurkishChar(low[j])]

normalize_turkish(text) ==
  IF text = <<>> THEN <<>>
  ELSE str_lower([i \in 1..Len(text) |-> TurkishChar(text[i])])

\* re.search(r'\b' + re.escape(keyword) + r'\b', text) finds a match.
re_search_word(keyword, text) ==
  \E i \in 1..(Len(text) + 1) : WordMatchAt(keyword, text, i, FALSE)

\* One iteration of the loop over the keywords: does this keyword return 1?
keyword_hits(keyword, text_normalized) ==
  LET keyword_normalized == normalize_turkish(keyword) IN
  IF Len(keyword_normalized) <= 2
    THEN re_search_word(keyword_normalized, text_normalized)
  ELSE Contains(text_normalized, keyword_normalized)

\* The for loop of check_allergen from the k-th keyword on.
RECURSIVE check_allergen_loop(_, _, _)
check_allergen_loop(text_normalized, keywords, k) ==
  IF k > Len(keywords) THEN 0
  ELSE IF keyword_hits(keywords[k], text_normalized) THEN 1
  ELSE check_allergen_loop(text_normalized, keywords, k + 1)

check_allergen(text, keywords) ==
  IF text = <<>> THEN 0
  ELSE check_allergen_loop(normalize_turkish(text), keywords, 1)

(***************************************************************************)
(* Translation clean-up, update_csv.py lines 69-116.                       *)
(***************************************************************************)

SAUTEED_OF_SHRIMP == <<83, 65, 85, 84, 69, 69, 68, 32, 79, 70, 32, 83, 72, 82, 73, 77, 80>>
Sauteed_Shrimp == <<83, 97, 117, 116, 101, 101, 100, 32, 83, 104, 114, 105, 109, 112>>
ADANA_STYLE_KEBAP == <<65, 68, 65, 78, 65, 32, 83, 84, 89, 76, 69, 32, 75, 69, 66, 65, 80>>
ADANA_STIL_KEBAP == <<65, 68, 65, 78, 65, 32, 83, 84, 73, 76, 32, 75, 69, 66, 65, 80>>
Adana_Style_Kebab == <<65, 100, 97, 110, 97, 32, 83, 116, 121, 108, 101, 32, 75, 101, 98, 97, 98>>
STIL == <<83, 84, 73, 76>>
Stil == <<83, 116, 105, 108>>
USULUE == <<85, 83, 85, 76, 220>>   \* 'USUL\xdc'
USULU == <<85, 83, 85, 76, 85>>
Style == <<83, 116, 121, 108, 101>>
KEBAP == <<75, 69, 66, 65, 80>>
Kebab == <<75, 101, 98, 97, 98>>
STILSUPPE == <<83, 84, 73, 76, 83, 85, 80, 80, 69>>
SUPPE == <<83, 85, 80, 80, 69>>
STILFILET == <<83, 84, 73, 76, 70, 73, 76, 69, 84>>
FILET == <<70, 73, 76, 69, 84>>
STILFRIKADELLE == <<83, 84, 73, 76, 70, 82, 73, 75, 65, 68, 69, 76, 76, 69>>
FRIKADELLE == <<70, 82, 73, 75, 65, 68, 69, 76, 76, 69>>

\* Lines 75-77: the literal phrase fixes, in order.
english_literals(text) ==
  LET t1 == str_replace(text, SAUTEED_OF_SHRIMP, Sauteed_Shrimp)
      t2 == str_replace(t1, ADANA_STYLE_KEBAP, Adana_Style_Kebab)
  IN str_replace(t2, ADANA_STIL_KEBAP, Adana_Style_Kebab)

\* Lines 80-83: the case-insensitive whole-word rules, in order.
english_words(text) ==
  LET t1 == re_sub_words(<<STIL, Stil, USULUE, USULU>>, Style, text, TRUE)
  IN re_sub_words(<<KEBAP>>, Kebab, t1, TRUE)

\* improve_english running the whole-word rules before the literal phrases.
improve_english_words_first(text) ==
  IF text = <<>> THEN text ELSE english_literals(english_words(text))

improve_english(text) ==
  IF text = <<>> THEN text ELSE english_words(english_literals(text))

\* Lines 94-96: the compound words, in order.
german_compounds(text) ==
  LET t1 == str_replace(text, STILSUPPE, SUPPE)
      t2 == str_replace(t1, STILFILET, FILET)
  IN str_replace(t2, STILFRIKADELLE, FRIKADELLE)

\* Lines 99-100: the standalone word, two casings, case-sensitive.
german_standalone(text) ==
  LET t1 == re_sub_words(<<STIL>>, <<>>, text, FALSE)
  IN re_sub_words(<<Stil>>, <<>>, t1, FALSE)

\* improve_german without the final strip().
improve_german_no_strip(text) ==
  IF text = <<>> THEN text
  ELSE collapse_spaces(german_standalone(german_compounds(text)))

improve_german(text) ==
  IF text = <<>> THEN text
  ELSE str_strip(collapse_spaces(german_standalone(german_compounds(text))))

improve_russian(text) ==
  IF text = <<>> THEN text ELSE str_strip(collapse_spaces(text))

(***************************************************************************)
(* The file layer of process_csv, update_csv.py lines 124-126 and 181-183: *)
(* a file is the sequence of its bytes; text is UTF-8, rows are in the     *)
(* csv module's default dialect (comma, double quote, minimal quoting,     *)
(* \r\n after each row).  Texts hold no NUL character.                     *)
(***************************************************************************)

RECURSIVE concat_range(_, _, _)
\* ss[lo] \o ... \o ss[hi]
concat_range(ss, lo, hi) ==
  IF lo > hi THEN <<>>
  ELSE IF lo = hi THEN ss[lo]
  ELSE LET mid == (lo + hi) \div 2 IN
       concat_range(ss, lo, mid) \o concat_range(ss, mid + 1, hi)

\* ''.join(ss)
concat(ss) == concat_range(ss, 1, Len(ss))

\* UTF-8 of one code point below U+10000.
utf8_char(c) ==
  IF c < 128 THEN <<c>>
  ELSE IF c < 2048 THEN <<192 + (c \div 64), 128 + (c % 64)>>
  ELSE <<224 + (c \div 4096), 128 + ((c \div 64) % 64), 128 + (c % 64)>>

\* encoding='utf-8' of line 181.
utf8_encode(s) == concat([k \in 1..Len(s) |-> utf8_char(s[k])])

\* The byte-order mark that encoding='utf-8-sig' skips.
BOM == <<239, 187, 191>>

\* The code point that starts at byte k of well-formed UTF-8 (code points
\* below U+10000), nothing at a continuation byte.
utf8_at(b, k) ==
  IF b[k] < 128 THEN <<b[k]>>
  ELSE IF b[k] < 192 THEN <<>>
  ELSE IF b[k] < 224 THEN <<(b[k] - 192) * 64 + (b[k + 1] - 128)>>
  ELSE <<(b[k] - 224) * 4096 + (b[k + 1] - 128) * 64 + (b[k + 2] - 128)>>

utf8_decode(b) == concat([k \in 1..Len(b) |-> utf8_at(b, k)])

\* encoding='utf-8-sig' of line 124.
utf8_sig_decode(b) ==
  IF Len(b) >= 3 /\ SubSeq(b, 1, 3) = BOM
    THEN utf8_decode(SubSeq(b, 4, Len(b)))
  ELSE utf8_decode(b)

\* csv.writer quotes a field that holds a comma, a quote, \r or \n.
NeedsQuotes(f) == \E j \in 1..Len(f) : f[j] \in {44, 34, 13, 10}

\* The field as csv.writer writes it: quoted when needed, its quotes doubled.
csv_field(f) ==
  IF NeedsQuotes(f)
    THEN <<34>> \o concat([k \in 1..Len(f) |-> IF f[k] = 34 THEN <<34, 34>> ELSE <<f[k]>>])
           \o <<34>>
  ELSE f

\* writer.writerow(row); a row of one empty field is written as "".
csv_writerow(row) ==
  (IF row = << <<>> >> THEN <<34, 34>>
   ELSE concat([k \in 1..Len(row) |->
                  (IF k > 1 THEN <<44>> ELSE <<>>) \o csv_field(row[k])]))
    \o <<13, 10>>

\* writer.writerows(output_rows), line 183.
csv_writerows(table) == concat([k \in 1..Len(table) |-> csv_writerow(table[k])])

\* The bytes lines 181-183 send to the output file.
file_bytes(table) == utf8_encode(csv_writerows(table))

\* The reader's state inside one record: st the parser state, field the
\* field being read, rec the fields read.
ReaderStart == [st |-> "START_RECORD", field |-> <<>>, rec |-> <<>>]

save_field(p, st) == [p EXCEPT !.rec = Append(p.rec, p.field), !.field = <<>>, !.st = st]

add_char(p, c, st) == [p EXCEPT !.field = Append(p.field, c), !.st = st]

\* The reader's step on one character.
csv_char(p, c) ==
  IF p.st = "START_RECORD" /\ c \in {10, 13} THEN [p EXCEPT !.st = "EAT_CRNL"]
  ELSE IF p.st \in {"START_RECORD", "START_FIELD"} THEN
    IF c \in {10, 13} THEN save_field(p, "EAT_CRNL")
    ELSE IF c = 34 THEN [p EXCEPT !.st = "IN_QUOTED_FIELD"]
    ELSE IF c = 44 THEN save_field(p, "START_FIELD")
    ELSE add_char(p, c, "IN_FIELD")
  ELSE IF p.st = "IN_FIELD" THEN
    IF c \in {10, 13} THEN save_field(p, "EAT_CRNL")
    ELSE IF c = 44 THEN save_field(p, "START_FIELD")
    ELSE add_char(p, c, "IN_FIELD")
  ELSE IF p.st = "IN_QUOTED_FIELD" THEN
    IF c = 34 THEN [p EXCEPT !.st = "QUOTE_IN_QUOTED_FIELD"]
    ELSE add_char(p, c, "IN_QUOTED_FIELD")
  ELSE IF p.st = "QUOTE_IN_QUOTED_FIELD" THEN
    IF c = 34 THEN add_char(p, c, "IN_QUOTED_FIELD")
    ELSE IF c = 44 THEN save_field(p, "START_FIELD")
    ELSE IF c \in {10, 13} THEN save_field(p, "EAT_CRNL")
    ELSE add_char(p, c, "IN_FIELD")
  ELSE IF c \in {10, 13} THEN p
  ELSE [p EXCEPT !.st = "ERROR"]   \* EAT_CRNL: anything but \r and \n is an error

\* The reader's step at the end of a line.
csv_eol(p) ==
  IF p.st \in {"START_FIELD", "IN_FIELD", "QUOTE_IN_QUOTED_FIELD"}
    THEN save_field(p, "START_RECORD")
  ELSE IF p.st = "EAT_CRNL" THEN [p EXCEPT !.st = "START_RECORD"]
  ELSE p

\* With newline='' a line of the file ends after \n, after \r\n, and after
\* a \r that no \n follows.
LineEndsAt(s, k) == s[k] = 10 \/ (s[k] = 13 /\ (k = Len(s) \/ s[k + 1] # 10))

RECURSIVE csv_next_record(_, _, _)
\* next(reader) with the text read up to k - 1 and the parser in state p:
\* the record, and the position after it.  A record is complete when a line
\* ends with the parser back at START_RECORD; at the end of the text an
\* open quoted field is closed.
csv_next_record(s, k, p) ==
  IF p.st = "ERROR" THEN [rec |-> p.rec, next |-> Len(s) + 1]
  ELSE IF k > Len(s) THEN [rec |-> Append(p.rec, p.field), next |-> k]
  ELSE LET q == csv_char(p, s[k])
           r == IF LineEndsAt(s, k) \/ k = Len(s) THEN csv_eol(q) ELSE q
       IN IF r.st = "START_RECORD" THEN [rec |-> r.rec, next |-> k + 1]
          ELSE csv_next_record(s, k + 1, r)

RECURSIVE csv_read_from(_, _)
csv_read_from(s, k) ==
  IF k > Len(s) THEN <<>>
  ELSE LET r == csv_next_record(s, k, ReaderStart) IN
       <<r.rec>> \o csv_read_from(s, r.next)

\* list(csv.reader(infile)), lines 125-126.
csv_reader(s) == csv_read_from(s, 1)

\* The rows lines 124-126 read from a file.
file_rows(b) == csv_reader(utf8_sig_decode(b))

(***************************************************************************)
(* Bounds of the model and the inputs it draws from.                       *)
(***************************************************************************)

\* Data rows of an input table.
MaxDataRows == 2
\* Exceptions raised inside the row loop during one run.
MaxErrors == 1

\* A nine-column header.
HeaderRow ==
  << <<73, 68>>,   \* 'ID'
     <<84, 82>>,   \* 'TR'
     <<69, 78>>,   \* 'EN'
     <<68, 69>>,   \* 'DE'
     <<82, 85>>,   \* 'RU'
     <<71, 76, 85, 84, 69, 78>>,   \* 'GLUTEN'
     <<77, 73, 76, 75>>,   \* 'MILK'
     <<69, 71, 71>>,   \* 'EGG'
     <<70, 73, 83, 72>> >>   \* 'FISH'

\* A two-column header whose fields the rules would rewrite if applied.
HeaderStil ==
  << <<83, 84, 73, 76>>,   \* 'STIL'
     <<117, 110>> >>   \* 'un'

\* The row of the end-to-end scenario.
Row12 ==
  << <<49, 50>>,   \* '12'
     <<66, 97, 108, 305, 107, 32, 75, 246, 102, 116, 101>>,   \* 'Bal\u0131k K\xf6fte'
     <<70, 105, 115, 104, 32, 66, 97, 108, 108, 115>>,   \* 'Fish Balls'
     <<70, 105, 115, 99, 104, 98, 228, 108, 108, 99, 104, 101, 110, 32, 83, 84, 73, 76>>,   \* 'Fischb\xe4llchen STIL'
     <<1056, 1099, 1073, 1085, 1099, 1077, 32, 1096, 1072, 1088, 1080, 1082, 1080, 32, 32>>,   \* '\u0420\u044b\u0431\u043d\u044b\u0435 \u0448\u0430\u0440\u0438\u043a\u0438  '
     <<48>>,   \* '0'
     <<48>>,   \* '0'
     <<48>>,   \* '0'
     <<48>> >>   \* '0'

\* A row of five fields.
RowShort ==
  << <<53>>,   \* '5'
     <<85, 110>>,   \* 'Un'
     <<83, 84, 73, 76>>,   \* 'STIL'
     <<83, 84, 73, 76>>,   \* 'STIL'
     <<120, 44, 34, 121, 34>> >>   \* 'x,"y"'

\* A row of ten fields, already in final form in its first nine.
RowLong ==
  << <<56>>,   \* '8'
     <<83, 252, 116, 108, 97, 231>>,   \* 'S\xfctla\xe7'
     <<82, 105, 99, 101, 32, 80, 117, 100, 100, 105, 110, 103>>,   \* 'Rice Pudding'
     <<77, 105, 108, 99, 104, 114, 101, 105, 115>>,   \* 'Milchreis'
     <<1055, 1091, 1076, 1080, 1085, 1075>>,   \* '\u041f\u0443\u0434\u0438\u043d\u0433'
     <<48>>,   \* '0'
     <<49>>,   \* '1'
     <<48>>,   \* '0'
     <<48>>,   \* '0'
     <<110, 111, 116, 101>> >>   \* 'note'

\* A row whose DE field is a nested compound.
RowNested ==
  << <<57>>,   \* '9'
     <<77, 101, 114, 99, 105, 109, 101, 107>>,   \* 'Mercimek'
     <<76, 101, 110, 116, 105, 108, 32, 83, 111, 117, 112>>,   \* 'Lentil Soup'
     <<83, 84, 73, 76, 83, 84, 73, 76, 83, 85, 80, 80, 69>>,   \* 'STILSTILSUPPE'
     <<1057, 1091, 1087>>,   \* '\u0421\u0443\u043f'
     <<48>>,   \* '0'
     <<48>>,   \* '0'
     <<48>>,   \* '0'
     <<48>> >>   \* '0'

\* What the output path holds before the run when it is not the input path (one row).
OldDest ==
  << <<111, 108, 100>> >>   \* 'old'


Headers == {HeaderRow, HeaderStil}
RowSamples == <<Row12, RowShort, <<>>, RowLong, RowNested>>

RECURSIVE SeqsUpTo(_, _)
\* The sequences of at most n elements of S.
SeqsUpTo(S, n) ==
  IF n = 0 THEN {<<>>}
  ELSE LET shorter == SeqsUpTo(S, n - 1) IN
       shorter \cup {Append(q, x) : q \in shorter, x \in S}

\* The sample rows at the positions ks, in the order of RowSamples.
RowsAt(ks) ==
  concat([k \in 1..Len(RowSamples) |-> IF k \in ks THEN <<RowSamples[k]>> ELSE <<>>])

\* The input tables of the model: no row at all, or a header and at most
\* MaxDataRows of the sample rows.
Tables ==
  {<<>>} \cup
  {<<h>> \o RowsAt(ks) :
     h \in Headers,
     ks \in {u \in SUBSET (1..Len(RowSamples)) : Cardinality(u) <= MaxDataRows}}

\* The input files of the model: the tables as csv.writer writes them, and
\* one file that starts with a byte-order mark.
InputFiles ==
  {file_bytes(t) : t \in Tables} \cup {BOM \o file_bytes(<<HeaderRow, Row12>>)}

(***************************************************************************)
(* process_csv, update_csv.py lines 118-187.                               *)
(***************************************************************************)

VARIABLES
  in_file,                \* bytes of the file at the input path
  out_file,               \* bytes of the file at the output path
  same_path,              \* input and output path are the same file (lines 190-191)
  before,                 \* what the output path held when the run started
  pc,                     \* "start", "loop", "write", "done" or "failed"
  rows,                   \* list(reader)
  i,                      \* position in rows of the next row of the loop (from 1)
  output_rows,
  rows_processed,
  allergens_updated,
  translations_improved,
  errors,                 \* positions of the rows whose error was printed
  text,                   \* argument of a direct call of one function
  keywords,               \* keyword list of a direct call of check_allergen
  op,                     \* the function called directly, or "none"
  result                  \* what the direct call returned

csv_vars ==
  <<in_file, out_file, same_path, before, pc, rows, i, output_rows,
    rows_processed, allergens_updated, translations_improved, errors>>
call_vars == <<text, keywords, op, result>>
vars == <<csv_vars, call_vars>>

\* str(n) for the results 0 and 1 of check_allergen.
str_of_flag(n) == <<48 + n>>

\* Lines 153-156: the four flags recomputed from the Turkish name.
new_flags(tr) ==
  << str_of_flag(check_allergen(tr, GLUTEN_KEYWORDS)),
     str_of_flag(check_allergen(tr, MILK_KEYWORDS)),
     str_of_flag(check_allergen(tr, EGG_KEYWORDS)),
     str_of_flag(check_allergen(tr, FISH_KEYWORDS)) >>

\* Lines 162-164: the three cleaned translations.
new_translations(row) ==
  << improve_english(row[3]), improve_german(row[4]), improve_russian(row[5]) >>

\* new_row emitting the normalized name in place of the name.
new_row_normalized_name(row) ==
  <<row[1], normalize_turkish(row[2])>> \o new_translations(row) \o new_flags(row[2])

\* Line 170: the emitted row of a row of at least nine fields.
new_row(row) == <<row[1], row[2]>> \o new_translations(row) \o new_flags(row[2])

\* Line 158.
flags_differ(row) == new_flags(row[2]) # SubSeq(row, 6, 9)

\* Line 166.
translations_differ(row) == new_translations(row) # SubSeq(row, 3, 5)

CsvInit ==
  /\ in_file \in InputFiles
  /\ same_path \in BOOLEAN
  /\ out_file = IF same_path THEN in_file ELSE file_bytes(<<OldDest>>)
  /\ before = out_file
  /\ pc = "start"
  /\ rows = <<>>
  /\ i = 1
  /\ output_rows = <<>>
  /\ rows_processed = 0
  /\ allergens_updated = 0
  /\ translations_improved = 0
  /\ errors = <<>>
  /\ text = <<>>
  /\ keywords = <<>>
  /\ op = "none"
  /\ result = <<>>

\* Lines 124-126: the input file is read whole.
Load ==
  /\ pc = "start"
  /\ rows' = file_rows(in_file)
  /\ pc' = "loop"
  /\ UNCHANGED <<in_file, out_file, same_path, before, i, output_rows,
                 rows_processed, allergens_updated, translations_improved, errors>>
  /\ UNCHANGED call_vars

\* Line 124: open() raises, the exception leaves process_csv.
LoadFail ==
  /\ pc = "start"
  /\ pc' = "failed"
  /\ UNCHANGED <<in_file, out_file, same_path, before, rows, i, output_rows,
                 rows_processed, allergens_updated, translations_improved, errors>>
  /\ UNCHANGED call_vars

InLoop == pc = "loop" /\ i <= Len(rows)

\* Lines 131-134.
HeaderLine ==
  /\ InLoop
  /\ i = 1
  /\ output_rows' = Append(output_rows, rows[i])
  /\ i' = i + 1
  /\ UNCHANGED <<in_file, out_file, same_path, before, pc, rows,
                 rows_processed, allergens_updated, translations_improved, errors>>
  /\ UNCHANGED call_vars

\* Lines 136-138.
ShortRow ==
  /\ InLoop
  /\ i > 1
  /\ Len(rows[i]) < 9
  /\ output_rows' = Append(output_rows, rows[i])
  /\ i' = i + 1
  /\ UNCHANGED <<in_file, out_file, same_path, before, pc, rows,
                 rows_processed, allergens_updated, translations_improved, errors>>
  /\ UNCHANGED call_vars

\* Lines 140-173: the try block runs to its end.
ProcessRow ==
  /\ InLoop
  /\ i > 1
  /\ Len(rows[i]) >= 9
  /\ LET row == rows[i] IN
       /\ allergens_updated' = allergens_updated + (IF flags_differ(row) THEN 1 ELSE 0)
       /\ translations_improved' =
            translations_improved + (IF translations_differ(row) THEN 1 ELSE 0)
       /\ output_rows' = Append(output_rows, new_row(row))
       /\ rows_processed' = rows_processed + 1
  /\ i' = i + 1
  /\ UNCHANGED <<in_file, out_file, same_path, before, pc, rows, errors>>
  /\ UNCHANGED call_vars

\* Where the try block can raise: in lines 142-158 (before any counter moved),
\* in lines 162-166 (after line 159), in lines 170-171 (after line 167, before
\* the new row is appended), at line 173 (after the new row was appended).
FailPoints == {"classify", "translate", "build", "count"}

\* Lines 140-178: the try block raises at failAt, the handler emits the row;
\* when the new row was appended already, the output holds both.
RowError(failAt) ==
  /\ InLoop
  /\ i > 1
  /\ Len(rows[i]) >= 9
  /\ Len(errors) < MaxErrors
  /\ LET row == rows[i] IN
       /\ allergens_updated' =
            IF failAt # "classify" /\ flags_differ(row)
              THEN allergens_updated + 1 ELSE allergens_updated
       /\ translations_improved' =
            IF failAt \in {"build", "count"} /\ translations_differ(row)
              THEN translations_improved + 1 ELSE translations_improved
       /\ output_rows' =
            IF failAt = "count" THEN output_rows \o <<new_row(row), row>>
            ELSE Append(output_rows, row)
  /\ errors' = Append(errors, i)
  /\ i' = i + 1
  /\ UNCHANGED <<in_file, out_file, same_path, before, pc, rows, rows_processed>>
  /\ UNCHANGED call_vars

\* Line 181: open(output_file, 'w') truncates the file.
OpenOutput ==
  /\ pc = "loop"
  /\ i > Len(rows)
  /\ out_file' = <<>>
  /\ in_file' = IF same_path THEN <<>> ELSE in_file
  /\ pc' = "write"
  /\ UNCHANGED <<same_path, before, rows, i, output_rows,
                 rows_processed, allergens_updated, translations_improved, errors>>
  /\ UNCHANGED call_vars

\* Line 181: open() raises before the file is touched.
OpenOutputFail ==
  /\ pc = "loop"
  /\ i > Len(rows)
  /\ pc' = "failed"
  /\ UNCHANGED <<in_file, out_file, same_path, before, rows, i, output_rows,
                 rows_processed, allergens_updated, translations_improved, errors>>
  /\ UNCHANGED call_vars

\* Lines 181-183: a write raises (disk full, file size limit, I/O error)
\* after n bytes of the output have reached the file.  The outputs of the
\* model are shorter than the file object's buffer, so nothing reaches the
\* file before the flush of the close, which can stop after any byte, inside
\* a row as well as between two rows.
WriteFail ==
  /\ pc = "write"
  /\ LET bytes == file_bytes(output_rows) IN
       \E n \in 0..Len(bytes) :
         /\ out_file' = SubSeq(bytes, 1, n)
         /\ in_file' = IF same_path THEN out_file' ELSE in_file
  /\ pc' = "failed"
  /\ UNCHANGED <<same_path, before, rows, i, output_rows,
                 rows_processed, allergens_updated, translations_improved, errors>>
  /\ UNCHANGED call_vars

\* Lines 183-187: the rows are written, the close flushes them to the file,
\* the summary is printed.
CloseOutput ==
  /\ pc = "write"
  /\ out_file' = file_bytes(output_rows)
  /\ in_file' = IF same_path THEN out_file' ELSE in_file
  /\ pc' = "done"
  /\ UNCHANGED <<same_path, before, rows, i, output_rows,
                 rows_processed, allergens_updated, translations_improved, errors>>
  /\ UNCHANGED call_vars

Next ==
  \/ Load
  \/ LoadFail
  \/ HeaderLine
  \/ ShortRow
  \/ ProcessRow
  \/ \E failAt \in FailPoints : RowError(failAt)
  \/ OpenOutput
  \/ OpenOutputFail
  \/ WriteFail
  \/ CloseOutput

Spec == CsvInit /\ [][Next]_vars

\* Lines 130-171 as a function of the table, when no row raises.
transform(table) ==
  [p \in 1..Len(table) |->
     IF p = 1 \/ Len(table[p]) < 9 THEN table[p] ELSE new_row(table[p])]

counters == <<rows_processed, allergens_updated, translations_improved>>

(***************************************************************************)
(* Properties of process_csv.                                              *)
(***************************************************************************)

\* C1: every emitted row has as many fields as the input row at its position
\* (header, short rows, rows of nine fields and rows of more than nine).
C1_FieldCountPreserved ==
  \A p \in 1..Len(output_rows) :
    p <= Len(rows) /\ Len(output_rows[p]) = Len(rows[p])

\* C2: a second run on the output file of a completed run without row
\* errors writes the same bytes again: transform(transform(T)) = transform(T).
C2_SecondRunSameOutput ==
  (pc = "done" /\ errors = <<>>) =>
    file_bytes(transform(file_rows(out_file))) = out_file

\* C5: the header is emitted as it was read; every data row emitted for an
\* input row has that row's id and Turkish name, and each of its fields
\* outside the indices 2..8 (positions 3..9 here) is the input's field at
\* that index; the output file of a finished run holds the emitted rows.
C5_HeaderIdNameKept ==
  /\ [][(InLoop /\ i' = i + 1) =>
          /\ Len(output_rows') > Len(output_rows)
          /\ SubSeq(output_rows', 1, Len(output_rows)) = output_rows
          /\ \A q \in (Len(output_rows) + 1)..Len(output_rows') :
               LET a == rows[i]
                   b == output_rows'[q]
               IN IF i = 1 THEN b = a
                  ELSE /\ \A j \in {1, 2} : j <= Len(a) => (j <= Len(b) /\ b[j] = a[j])
                       /\ \A j \in DOMAIN b :
                            j \notin 3..9 => (j \in DOMAIN a /\ b[j] = a[j])]_vars
  /\ [](output_rows # <<>> => output_rows[1] = rows[1])
  /\ [](pc = "done" => file_rows(out_file) = output_rows)

\* C5 witness: a finished run whose header holds text the rules would
\* rewrite and which changed a data row of at least nine fields.
C5_Witness ==
  /\ pc = "done"
  /\ errors = <<>>
  /\ rows # <<>>
  /\ rows[1] = HeaderStil
  /\ \E p \in 2..Len(rows) : Len(rows[p]) >= 9 /\ output_rows[p] # rows[p]

\* C6: a run ends with the full output table at the output path, or fails
\* with the previous contents of the output path untouched.
C6_AllOrNothing ==
  /\ pc = "done" => out_file = file_bytes(output_rows)
  /\ pc = "failed" => out_file = before

\* C7: when a row raises, the original row is emitted and none of the three
\* counters moves for it.
C7_FailedRowCountsNowhere ==
  [][errors' # errors =>
       /\ output_rows' = Append(output_rows, rows[i])
       /\ counters' = counters]_vars

\* C8: a data row of fewer than nine fields is emitted unchanged at its
\* original position and moves no counter; a run without row errors ends with
\* rows_processed equal to the number of data rows of at least nine fields.
C8_ShortRowsPassThrough ==
  /\ [][(InLoop /\ i > 1 /\ Len(rows[i]) < 9) =>
          /\ output_rows' = Append(output_rows, rows[i])
          /\ counters' = counters]_vars
  /\ [](\A p \in 2..Len(rows) :
          (p < i /\ Len(rows[p]) < 9) =>
            (p <= Len(output_rows) /\ output_rows[p] = rows[p]))
  /\ []((pc = "done" /\ errors = <<>>) =>
          rows_processed = Cardinality({p \in 2..Len(rows) : Len(rows[p]) >= 9}))

\* 'Fischb\xe4llchen'
FISCHBAELLCHEN == <<70, 105, 115, 99, 104, 98, 228, 108, 108, 99, 104, 101, 110>>
\* '\u0420\u044b\u0431\u043d\u044b\u0435 \u0448\u0430\u0440\u0438\u043a\u0438'
RYBNYE_SHARIKI == <<1056, 1099, 1073, 1085, 1099, 1077, 32, 1096, 1072, 1088, 1080, 1082, 1080>>

\* The row the scenario expects: flags 1, 0, 0, 1.
Row12Claimed ==
  <<Row12[1], Row12[2], Row12[3], FISCHBAELLCHEN,
    RYBNYE_SHARIKI, <<49>>, <<48>>, <<48>>, <<49>> >>

\* The row with flags 0, 0, 0, 1.
Row12Emitted ==
  <<Row12[1], Row12[2], Row12[3], FISCHBAELLCHEN,
    RYBNYE_SHARIKI, <<48>>, <<48>>, <<48>>, <<49>> >>

\* C9: the row emitted for the scenario row has flags 1, 0, 0, 1, DE and RU
\* cleaned, id, Turkish name and EN unchanged.
C9_ScenarioFlags1001 ==
  [][(InLoop /\ i > 1 /\ rows[i] = Row12 /\ i' = i + 1 /\ errors' = errors) =>
       output_rows' = Append(output_rows, Row12Claimed)]_vars

\* C9 as amended: the row emitted for the scenario row has flags 0, 0, 0, 1
\* (fish only), DE and RU cleaned, id, Turkish name and EN unchanged.
C9_ScenarioFlags0001 ==
  [][(InLoop /\ i > 1 /\ rows[i] = Row12 /\ i' = i + 1 /\ errors' = errors) =>
       output_rows' = Append(output_rows, Row12Emitted)]_vars

\* C9 witness: a finished run without row errors that processed the
\* scenario row.
C9_Witness ==
  /\ pc = "done"
  /\ errors = <<>>
  /\ \E p \in 2..Len(rows) : rows[p] = Row12 /\ output_rows[p] = Row12Emitted

(***************************************************************************)
(* Direct calls of check_allergen and improve_english on bounded texts.    *)
(***************************************************************************)

\* Pieces a text of the model is concatenated from.
MaxPieces == 3

\* Pieces of the subjects given to check_allergen.
AllergenPieces ==
  { <<117, 110>>,   \* 'un'
    <<85, 78>>,   \* 'UN'
    <<95>>,   \* '_'
    <<45>>,   \* '-'
    <<32>>,   \* ' '
    <<97>>,   \* 'a'
    <<49>>,   \* '1'
    <<66, 65, 76, 73, 75>>,   \* 'BALIK'
    <<304>> }   \* '\u0130'

\* Pieces of the texts given to improve_english.
EnglishPieces ==
  { <<65, 68, 65, 78, 65, 32, 83, 84, 73, 76>>,   \* 'ADANA STIL'
    <<65, 68, 65, 78, 65, 32, 83, 84, 89, 76, 69>>,   \* 'ADANA STYLE'
    <<32, 75, 69, 66, 65, 80>>,   \* ' KEBAP'
    <<83, 84, 73, 76>>,   \* 'STIL'
    <<115, 116, 305, 108>>,   \* 'st\u0131l'
    <<32>>,   \* ' '
    <<84, 65, 86, 85, 75>>,   \* 'TAVUK'
    <<85, 83, 85, 76, 220>>,   \* 'USUL\xdc'
    <<107, 101, 98, 97, 112>>,   \* 'kebap'
    <<95>> }   \* '_'


KW_UN == <<117, 110>>              \* 'un'
KW_UN_UPPER == <<85, 78>>          \* 'UN'
KW_BALIK == <<98, 97, 108, 305, 107>>   \* 'bal\u0131k'
KW_I == <<105>>                    \* 'i'
BALIK == <<66, 65, 76, 73, 75>>    \* 'BALIK'

\* Keyword lists given to check_allergen.
KeywordLists ==
  { <<>>, <<KW_UN>>, <<KW_UN_UPPER>>, <<KW_I>>, <<KW_BALIK, KW_UN>>, <<KW_UN, KW_BALIK>>,
    GLUTEN_KEYWORDS, FISH_KEYWORDS }

RECURSIVE Flatten(_)
\* The concatenation of a sequence of strings.
Flatten(ss) == IF ss = <<>> THEN <<>> ELSE Head(ss) \o Flatten(Tail(ss))

TextsOf(pieces) == {Flatten(q) : q \in SeqsUpTo(pieces, MaxPieces)}

\* process_csv is not running.
CsvIdle ==
  /\ in_file = <<>>
  /\ out_file = <<>>
  /\ same_path = TRUE
  /\ before = <<>>
  /\ pc = "idle"
  /\ rows = <<>>
  /\ i = 1
  /\ output_rows = <<>>
  /\ rows_processed = 0
  /\ allergens_updated = 0
  /\ translations_improved = 0
  /\ errors = <<>>

AllergenInit ==
  /\ CsvIdle
  /\ text \in TextsOf(AllergenPieces)
  /\ keywords = <<>>
  /\ op = "none"
  /\ result = <<>>

\* result = check_allergen(text, kw)
CallCheckAllergen(kw) ==
  /\ op = "none"
  /\ op' = "check_allergen"
  /\ keywords' = kw
  /\ result' = check_allergen(text, kw)
  /\ UNCHANGED text
  /\ UNCHANGED csv_vars

AllergenNext == \E kw \in KeywordLists : CallCheckAllergen(kw)

SpecAllergen == AllergenInit /\ [][AllergenNext]_vars

EnglishInit ==
  /\ CsvIdle
  /\ text \in TextsOf(EnglishPieces)
  /\ keywords = <<>>
  /\ op = "none"
  /\ result = <<>>

\* result = improve_english(text)
CallImproveEnglish ==
  /\ op = "none"
  /\ op' = "improve_english"
  /\ result' = improve_english(text)
  /\ UNCHANGED <<text, keywords>>
  /\ UNCHANGED csv_vars

EnglishNext == CallImproveEnglish

SpecEnglish == EnglishInit /\ [][EnglishNext]_vars

(***************************************************************************)
(* Properties of check_allergen.                                           *)
(***************************************************************************)

\* Turkish case folding, character by character: U+0130 to i, I to U+0131,
\* every other character to its lower case.
TurkishFoldChar(c) ==
  IF c = 304 THEN <<105>> ELSE IF c = 73 THEN <<305>> ELSE LowerChar(c)

TurkishFold(s) == Flatten([j \in 1..Len(s) |-> TurkishFoldChar(s[j])])

\* k occurs in s at position p.
OccursAt(k, s, p) ==
  /\ p >= 1
  /\ p + Len(k) - 1 <= Len(s)
  /\ SubSeq(s, p, p + Len(k) - 1) = k

\* A letter or a digit.
IsAlnum(c) == IsWordChar(c) /\ c # 95

\* The occurrence of k at p has a string edge or a character outside the
\* class on each side.
BoundedAt(k, s, p, InClass(_)) ==
  /\ OccursAt(k, s, p)
  /\ (p = 1 \/ ~InClass(s[p - 1]))
  /\ (p + Len(k) > Len(s) \/ ~InClass(s[p + Len(k)]))

\* The keyword matches the subject: folded, a keyword of more than two
\* characters by containment, a shorter one as a whole word.
KeywordMatches(keyword, subject) ==
  LET k == TurkishFold(keyword)
      s == TurkishFold(subject)
  IN IF Len(k) > 2
       THEN \E p \in 1..Len(s) : OccursAt(k, s, p)
     ELSE \E p \in 1..Len(s) : BoundedAt(k, s, p, IsWordChar)

Reverse(q) == [j \in 1..Len(q) |-> q[Len(q) + 1 - j]]

\* C3: check_allergen returns 1 exactly when some keyword of the list matches
\* the folded subject, else 0; the order of the keywords does not matter;
\* the subject 'BALIK' is fish.
C3_ClassifierIsAnyKeyword ==
  op = "check_allergen" =>
    /\ result = (IF \E k \in 1..Len(keywords) : KeywordMatches(keywords[k], text)
                   THEN 1 ELSE 0)
    /\ result = check_allergen(text, Reverse(keywords))
    /\ (text = BALIK /\ keywords = FISH_KEYWORDS) => result = 1

\* C3 witness: 'BALIK' was classified against the fish keywords.
C3_Witness ==
  /\ op = "check_allergen"
  /\ text = BALIK
  /\ keywords = FISH_KEYWORDS
  /\ result = 1

\* The call was made with one keyword of one or two characters.
ShortKeywordCall ==
  /\ op = "check_allergen"
  /\ Len(keywords) = 1
  /\ Len(TurkishFold(keywords[1])) \in {1, 2}

\* C4: a keyword of at most two characters matches exactly when an occurrence
\* has on each side a string edge or a character that is no letter and no
\* digit (space, hyphen, underscore).
C4_BoundedByNonAlnum ==
  ShortKeywordCall =>
    LET k == TurkishFold(keywords[1])
        s == TurkishFold(text)
    IN (result = 1) <=> (\E p \in 1..Len(s) : BoundedAt(k, s, p, IsAlnum))

(***************************************************************************)
(* Properties of improve_english.                                          *)
(***************************************************************************)

TAVUK_USULUE == <<84, 65, 86, 85, 75, 32, 85, 83, 85, 76, 220>>   \* 'TAVUK USUL\xdc'
TAVUK_Style == <<84, 65, 86, 85, 75, 32, 83, 116, 121, 108, 101>>  \* 'TAVUK Style'

\* w stands in s as a whole word, in any casing.
HasWord(s, w) == \E p \in 1..Len(s) : WordMatchAt(w, s, p, TRUE)

\* C10: the literal phrases are replaced before the whole-word rules, so a
\* text holding a listed phrase gets the phrase's replacement; afterwards no
\* casing of STIL, USULUE, USULU or KEBAP is left as a word;
\* 'ADANA STIL KEBAP' becomes 'Adana Style Kebab', 'TAVUK USULUE' becomes
\* 'TAVUK Style', the empty text stays empty.
C10_LiteralsBeforeWords ==
  op = "improve_english" =>
    /\ text = ADANA_STIL_KEBAP => result = Adana_Style_Kebab
    /\ text = TAVUK_USULUE => result = TAVUK_Style
    /\ text = <<>> => result = <<>>
    /\ (Contains(text, ADANA_STIL_KEBAP) \/ Contains(text, ADANA_STYLE_KEBAP))
         => Contains(result, Adana_Style_Kebab)
    /\ \A w \in {STIL, USULUE, USULU, KEBAP} : ~HasWord(result, w)

\* C10 witness: 'ADANA STIL KEBAP' was cleaned to 'Adana Style Kebab'.
C10_Witness ==
  /\ op = "improve_english"
  /\ text = ADANA_STIL_KEBAP
  /\ result = Adana_Style_Kebab

====
